---------------------------- MODULE Spec2Model ----------------------------
(***************************************************************************)
(* Model of review_code_gemini.py: the unified-diff parser (parse_diff),   *)
(* the exclude filter of main, the per-hunk review loop (analyze_code,     *)
(* get_ai_response, create_comment, get_file_content), the line mapper     *)
(* (get_full_line_number) and the batched submission                       *)
(* (create_review_comment).                                                *)
(*                                                                         *)
(* A text line is a sequence of one-character strings, so that             *)
(* str.startswith, slicing, join/split and fnmatch are computed on the     *)
(* characters as the Python code computes them.                            *)
(***************************************************************************)
EXTENDS Integers, Sequences, FiniteSets, TLC

VARIABLES
    pc,              \* position of main, or of the function run alone
    diff,            \* parse_diff: diff_str.splitlines()
    pos,             \* parse_diff: number of lines already consumed by the loop
    heap,            \* parse_diff: every file dict created so far (by reference)
    files,           \* parse_diff: the list `files` (references into heap)
    current_file,    \* parse_diff: reference into heap, or None
    current_hunk,    \* parse_diff: <<file reference, hunk index>>, or None
    parsed_diff,     \* main: result of parse_diff
    exclude_raw,     \* main: os.environ["INPUT_EXCLUDE"]
    filtered_diff,   \* main: files handed to analyze_code
    fi,              \* analyze_code: index of the file being processed
    hi,              \* analyze_code: index of the hunk being processed
    comments,        \* analyze_code: the accumulated comment list
    asked,           \* history: hunks for which get_ai_response was called
    fetches,         \* history: paths for which get_file_content was called
    mapper_calls,    \* history: arguments of every get_full_line_number call
    outcome,         \* how main ended: "running", "ok", "raised" (out of
                     \* analyze_code), "submit_raised" (out of create_review_comment)
    batch_size,      \* create_review_comment: batch_size
    batch_i,         \* create_review_comment: loop variable i
    submissions,     \* history: the batches passed to pr.create_review
    m_lines,         \* get_full_line_number run alone: the hunk's lines
    m_start,         \* get_full_line_number run alone: hunk.source_start
    m_d,             \* get_full_line_number run alone: diff_line_number
    m_result         \* get_full_line_number run alone: return value (0: not run)

vars == <<pc, diff, pos, heap, files, current_file, current_hunk, parsed_diff,
          exclude_raw, filtered_diff, fi, hi, comments, asked, fetches,
          mapper_calls, outcome, batch_size, batch_i, submissions,
          m_lines, m_start, m_d, m_result>>

parseVars == <<diff, pos, heap, files, current_file, current_hunk, parsed_diff>>
mainVars == <<exclude_raw, filtered_diff>>
analyzeVars == <<fi, hi, comments, asked, fetches, mapper_calls>>
submitVars == <<batch_size, batch_i, submissions>>
mapVars == <<m_lines, m_start, m_d, m_result>>

----------------------------------------------------------------------------
(* Bounds of the model.                                                    *)

MaxLines == 4        \* SpecParse: longest diff text, in lines
MaxLineNumber == 5   \* Spec: largest lineNumber Gemini answers
MaxHunkLines == 4    \* SpecMap: longest hunk, in lines
MaxComments == 23    \* SpecBatch: longest comment list
MaxBatch == 10       \* SpecBatch: largest batch_size

----------------------------------------------------------------------------
(* Strings.                                                                *)

\* create_review_comment(..., batch_size: int = 10)
DefaultBatchSize == 10

\* None, for a file reference and for a hunk reference
None == 0
NoHunk == <<0, 0>>

DIFF_GIT == <<"d","i","f","f"," ","-","-","g","i","t">>
SRC_MARK == <<"-","-","-"," ","a","/">>
TGT_MARK == <<"+","+","+"," ","b","/">>
HUNK_MARK == <<"@","@">>
DEV_NULL == <<"/","d","e","v","/","n","u","l","l">>
EMPTY == <<>>

\* str.startswith(prefix)
StartsWith(s, prefix) ==
    /\ Len(s) >= Len(prefix)
    /\ SubSeq(s, 1, Len(prefix)) = prefix

\* s[n:]
DropFirst(s, n) == SubSeq(s, n + 1, Len(s))

\* truth value of a str, list or dict: non-empty
Truthy(s) == s # <<>>

----------------------------------------------------------------------------
(* parse_diff.                                                             *)

\* the dict {'path': '', 'hunks': []}
NewFile == [path |-> EMPTY, hunks |-> <<>>]

\* the dict {'header': line, 'lines': []}
NewHunk(line) == [header |-> line, lines |-> <<>>]

\* `if current_file:` a file dict always has its two keys, so it is true
\* exactly when the variable is not None
FileIsSet(st) == st.current_file # None

\* a plausible slip: a file without a path is not appended
ParseAppendFile_SkipsPathless(st) ==
    IF FileIsSet(st) /\ Truthy(st.heap[st.current_file].path)
    THEN Append(st.files, st.current_file)
    ELSE st.files

\* `if current_file: files.append(current_file)`
ParseAppendFile(st) ==
    IF FileIsSet(st) THEN Append(st.files, st.current_file) ELSE st.files

\* one iteration of `for line in diff_str.splitlines()`
ParseStep(st, line) ==
    IF StartsWith(line, DIFF_GIT) THEN
        [st EXCEPT !.files = ParseAppendFile(st),
                   !.heap = Append(st.heap, NewFile),
                   !.current_file = Len(st.heap) + 1]
    ELSE IF StartsWith(line, SRC_MARK) \/ StartsWith(line, TGT_MARK) THEN
        IF FileIsSet(st)
        THEN [st EXCEPT !.heap[st.current_file].path = DropFirst(line, 6)]
        ELSE st
    ELSE IF StartsWith(line, HUNK_MARK) THEN
        IF FileIsSet(st)
        THEN [st EXCEPT
                !.heap[st.current_file].hunks = Append(@, NewHunk(line)),
                !.current_hunk =
                    <<st.current_file, Len(st.heap[st.current_file].hunks) + 1>>]
        ELSE st
    ELSE IF st.current_hunk # NoHunk THEN
        [st EXCEPT
            !.heap[st.current_hunk[1]].hunks[st.current_hunk[2]].lines =
                Append(@, line)]
    ELSE st

ParseState ==
    [heap |-> heap, files |-> files, current_file |-> current_file,
     current_hunk |-> current_hunk]

\* the list returned by parse_diff, references resolved
ParseResult(st) ==
    LET fs == ParseAppendFile(st)
    IN  [k \in 1..Len(fs) |-> st.heap[fs[k]]]

ParseLine ==
    /\ pc = "parse"
    /\ pos < Len(diff)
    /\ LET st == ParseStep(ParseState, diff[pos + 1])
       IN  /\ heap' = st.heap
           /\ files' = st.files
           /\ current_file' = st.current_file
           /\ current_hunk' = st.current_hunk
    /\ pos' = pos + 1
    /\ UNCHANGED <<pc, diff, parsed_diff, mainVars, analyzeVars, outcome,
                   submitVars, mapVars>>

ParseEnd ==
    /\ pc = "parse"
    /\ pos = Len(diff)
    /\ files' = ParseAppendFile(ParseState)
    /\ parsed_diff' = ParseResult(ParseState)
    /\ pc' = "filter"
    /\ UNCHANGED <<diff, pos, heap, current_file, current_hunk, mainVars,
                   analyzeVars, outcome, submitVars, mapVars>>

----------------------------------------------------------------------------
(* Inputs of parse_diff run alone: every text of at most MaxLines lines of *)
(* the kinds a git diff is made of.                                        *)

L_GIT == DIFF_GIT \o <<" ","x">>
L_INDEX == <<"i","n","d","e","x">>
L_SRC_A == SRC_MARK \o <<"a">>
L_TGT_B == TGT_MARK \o <<"b">>
L_TGT_NULL == <<"+","+","+"," ">> \o DEV_NULL
L_HUNK3 == <<"@","@"," ","-","3",","," ","+","3"," ","@","@">>
L_CTX == <<" ","c">>
L_DEL == <<"-","r">>
L_ADD == <<"+","a">>

ParseLines == {L_GIT, L_INDEX, L_SRC_A, L_TGT_B, L_TGT_NULL, L_HUNK3, L_ADD}

SeqsUpTo(S, n) == UNION {[1..k -> S] : k \in 0..n}

Idle ==
    /\ parsed_diff = <<>> /\ exclude_raw = EMPTY /\ filtered_diff = <<>>
    /\ fi = 1 /\ hi = 1 /\ comments = <<>> /\ asked = <<>> /\ fetches = <<>>
    /\ mapper_calls = <<>> /\ outcome = "running"
    /\ batch_size = DefaultBatchSize /\ batch_i = 0 /\ submissions = <<>>
    /\ m_lines = <<>> /\ m_start = 1 /\ m_d = 0 /\ m_result = 0

ParseIdle ==
    /\ pos = 0 /\ heap = <<>> /\ files = <<>>
    /\ current_file = None /\ current_hunk = NoHunk

InitParse ==
    /\ pc = "parse"
    /\ diff \in SeqsUpTo(ParseLines, MaxLines)
    /\ ParseIdle
    /\ Idle

NextParse == ParseLine \/ ParseEnd

SpecParse == InitParse /\ [][NextParse]_vars

----------------------------------------------------------------------------
(* get_full_line_number.                                                   *)

NEWLINE == "\n"

\* '\n'.join(lines)
RECURSIVE JoinLines(_)
JoinLines(lines) ==
    IF lines = <<>> THEN EMPTY
    ELSE IF Len(lines) = 1 THEN lines[1]
    ELSE lines[1] \o <<NEWLINE>> \o JoinLines(Tail(lines))

RECURSIVE SplitFrom(_, _, _, _)
SplitFrom(s, sep, i, cur) ==
    IF i > Len(s) THEN <<cur>>
    ELSE IF s[i] = sep THEN <<cur>> \o SplitFrom(s, sep, i + 1, EMPTY)
    ELSE SplitFrom(s, sep, i + 1, Append(cur, s[i]))

\* s.split(sep), sep one character
Split(s, sep) == SplitFrom(s, sep, 1, EMPTY)

\* the unidiff Hunk object as analyze_code fills it in
MakeHunk(source_start, hunk_lines) ==
    [source_start |-> source_start,
     source_length |-> Len(hunk_lines),
     target_start |-> source_start,
     target_length |-> Len(hunk_lines),
     content |-> JoinLines(hunk_lines)]

\* the loop of get_full_line_number from its k-th line on; the value is the
\* function's return value
RECURSIVE FullLineWalk(_, _, _, _, _)
FullLineWalk(lines, k, absolute_line_number, current_diff_line, diff_line_number) ==
    IF k > Len(lines) THEN absolute_line_number
    ELSE IF current_diff_line = diff_line_number THEN absolute_line_number
    ELSE IF StartsWith(lines[k], <<"-">>) THEN
        FullLineWalk(lines, k + 1, absolute_line_number, current_diff_line,
                     diff_line_number)
    ELSE
        FullLineWalk(lines, k + 1,
                     IF ~StartsWith(lines[k], <<"+">>)
                     THEN absolute_line_number + 1
                     ELSE absolute_line_number,
                     current_diff_line + 1, diff_line_number)

\* file_lines is not read by the function
get_full_line_number(file_lines, hunk, diff_line_number) ==
    FullLineWalk(Split(hunk.content, NEWLINE), 1, hunk.source_start, 0,
                 diff_line_number)

Resolve ==
    /\ pc = "map"
    /\ m_result' = get_full_line_number(<<>>, MakeHunk(m_start, m_lines), m_d)
    /\ pc' = "mapped"
    /\ UNCHANGED <<parseVars, mainVars, analyzeVars, outcome, submitVars,
                   m_lines, m_start, m_d>>

HunkBodyLines == {L_CTX, L_DEL, L_ADD}

\* values of hunk.source_start for get_full_line_number run alone
SourceStarts == {1, 10}

InitMap ==
    /\ pc = "map"
    /\ diff = <<>> /\ ParseIdle
    /\ parsed_diff = <<>> /\ exclude_raw = EMPTY /\ filtered_diff = <<>>
    /\ fi = 1 /\ hi = 1 /\ comments = <<>> /\ asked = <<>> /\ fetches = <<>>
    /\ mapper_calls = <<>> /\ outcome = "running"
    /\ batch_size = DefaultBatchSize /\ batch_i = 0 /\ submissions = <<>>
    /\ m_lines \in SeqsUpTo(HunkBodyLines, MaxHunkLines)
    /\ m_start \in SourceStarts
    /\ m_d \in 0..(MaxHunkLines + 1)
    /\ m_result = 0

NextMap == Resolve

SpecMap == InitMap /\ [][NextMap]_vars

----------------------------------------------------------------------------
(* main: the exclude patterns and the file filter.                         *)

WHITESPACE == {" ", "\t", "\n", "\r"}

RECURSIVE LStrip(_)
LStrip(s) ==
    IF s # EMPTY /\ Head(s) \in WHITESPACE THEN LStrip(Tail(s)) ELSE s

RECURSIVE RStrip(_)
RStrip(s) ==
    IF s # EMPTY /\ s[Len(s)] \in WHITESPACE
    THEN RStrip(SubSeq(s, 1, Len(s) - 1))
    ELSE s

\* s.strip()
Strip(s) == LStrip(RStrip(s))

\* [f(x) for x in xs]
RECURSIVE MapStrip(_)
MapStrip(xs) ==
    IF xs = <<>> THEN <<>> ELSE <<Strip(Head(xs))>> \o MapStrip(Tail(xs))

\* exclude_patterns of main, from INPUT_EXCLUDE
ExcludePatterns(raw) ==
    IF Truthy(raw) /\ Truthy(Strip(raw))
    THEN MapStrip(SelectSeq(Split(raw, ","), LAMBDA p : Truthy(Strip(p))))
    ELSE <<>>

\* fnmatch.fnmatch(name, pat) on POSIX for patterns made of literal
\* characters, '*' and '?' (no '[' class): name[i..] against pat[j..]
RECURSIVE FnMatchFrom(_, _, _, _)
FnMatchFrom(name, i, pat, j) ==
    IF j > Len(pat) THEN i > Len(name)
    ELSE IF pat[j] = "*" THEN
        \E k \in i..(Len(name) + 1) : FnMatchFrom(name, k, pat, j + 1)
    ELSE IF pat[j] = "?" THEN
        i <= Len(name) /\ FnMatchFrom(name, i + 1, pat, j + 1)
    ELSE
        i <= Len(name) /\ name[i] = pat[j] /\ FnMatchFrom(name, i + 1, pat, j + 1)

fnmatch(name, pat) == FnMatchFrom(name, 1, pat, 1)

\* a plausible slip: all() in place of any()
ShouldExclude_All(file_path, exclude_patterns) ==
    \A k \in 1..Len(exclude_patterns) : fnmatch(file_path, exclude_patterns[k])

\* any(fnmatch.fnmatch(file_path, pattern) for pattern in exclude_patterns)
ShouldExclude(file_path, exclude_patterns) ==
    \E k \in 1..Len(exclude_patterns) : fnmatch(file_path, exclude_patterns[k])

\* the loop that builds filtered_diff
FilterFiles(parsed, exclude_patterns) ==
    SelectSeq(parsed, LAMBDA file : ~ShouldExclude(file.path, exclude_patterns))

Filter ==
    /\ pc = "filter"
    /\ filtered_diff' = FilterFiles(parsed_diff, ExcludePatterns(exclude_raw))
    /\ pc' = "file"
    /\ UNCHANGED <<parseVars, exclude_raw, analyzeVars, outcome, submitVars,
                   mapVars>>

----------------------------------------------------------------------------
(* analyze_code, get_ai_response, create_comment, get_file_content.        *)

\* int(ai_response["lineNumber"]) succeeds (else ValueError or TypeError)
CanInt(v) == "num" \in DOMAIN v

\* valid_reviews of get_ai_response: the reviews holding both keys
ValidReviews(reviews) ==
    SelectSeq(reviews, LAMBDA review :
        "lineNumber" \in DOMAIN review /\ "reviewComment" \in DOMAIN review)

\* the loop of create_comment over ai_responses from the k-th on: the
\* comments it appends and the get_full_line_number calls it makes
RECURSIVE CreateCommentLoop(_, _, _, _, _)
CreateCommentLoop(path, file_lines, hunk, ai_responses, k) ==
    IF k > Len(ai_responses) THEN [comments |-> <<>>, calls |-> <<>>]
    ELSE
        LET rest == CreateCommentLoop(path, file_lines, hunk, ai_responses, k + 1)
            ai_response == ai_responses[k]
        IN  IF ~CanInt(ai_response.lineNumber) THEN rest
            ELSE
                LET line_number == ai_response.lineNumber.num
                    full_line_number ==
                        get_full_line_number(file_lines, hunk, line_number)
                    call == [diff_line_number |-> line_number,
                             source_length |-> hunk.source_length]
                IN  IF line_number < 1 \/ line_number > hunk.source_length
                    THEN [comments |-> rest.comments,
                          calls |-> <<call>> \o rest.calls]
                    ELSE [comments |->
                              <<[body |-> ai_response.reviewComment,
                                 path |-> path,
                                 position |-> line_number,
                                 full_line_number |-> full_line_number]>>
                              \o rest.comments,
                          calls |-> <<call>> \o rest.calls]

create_comment(path, file_lines, hunk, ai_responses) ==
    CreateCommentLoop(path, file_lines, hunk, ai_responses, 1)

\* hunk.source_start = 1 in analyze_code
AnalyzeSourceStart == 1

CurFile == filtered_diff[fi]
CurHunkData == CurFile.hunks[hi]
CurHunk == MakeHunk(AnalyzeSourceStart, CurHunkData.lines)

\* the "reviews" lists Gemini may answer; <<>> also stands for every
\* way get_ai_response returns [] (API error, bad JSON, no "reviews" list)
Review(n) == [lineNumber |-> [num |-> n], reviewComment |-> "body"]
GeminiAnswers ==
    {<<>>, <<[reviewComment |-> "body"]>>,
     <<[lineNumber |-> [text |-> "abc"], reviewComment |-> "body"]>>,
     <<Review(1), [reviewComment |-> "body"], Review(2)>>}
    \cup {<<Review(n)>> : n \in 0..MaxLineNumber}

\* file contents get_file_content may return ([] when get_contents raises)
FileContents == {<<>>, <<L_CTX, L_ADD>>}

Asked(new_comments) ==
    [path |-> CurFile.path, header |-> CurHunkData.header,
     lines |-> CurHunkData.lines, comments |-> new_comments]

\* `for file_data in parsed_diff` is exhausted: analyze_code returns, and
\* main submits `if comments:`
AnalyzeReturn ==
    /\ pc = "file"
    /\ fi > Len(filtered_diff)
    /\ IF Truthy(comments)
       THEN pc' = "submit" /\ outcome' = outcome
       ELSE pc' = "done" /\ outcome' = "ok"
    /\ UNCHANGED <<parseVars, mainVars, analyzeVars, submitVars, mapVars>>

\* `if not file_path or file_path == "/dev/null": continue`
AnalyzeSkipFile ==
    /\ pc = "file"
    /\ fi <= Len(filtered_diff)
    /\ (~Truthy(CurFile.path) \/ CurFile.path = DEV_NULL)
    /\ fi' = fi + 1
    /\ UNCHANGED <<pc, parseVars, mainVars, hi, comments, asked, fetches,
                   mapper_calls, outcome, submitVars, mapVars>>

AnalyzeEnterFile ==
    /\ pc = "file"
    /\ fi <= Len(filtered_diff)
    /\ ~(~Truthy(CurFile.path) \/ CurFile.path = DEV_NULL)
    /\ hi' = 1
    /\ pc' = "hunk"
    /\ UNCHANGED <<parseVars, mainVars, fi, comments, asked, fetches,
                   mapper_calls, outcome, submitVars, mapVars>>

\* `for hunk_data in hunks` is exhausted
AnalyzeNextFile ==
    /\ pc = "hunk"
    /\ hi > Len(CurFile.hunks)
    /\ fi' = fi + 1
    /\ pc' = "file"
    /\ UNCHANGED <<parseVars, mainVars, hi, comments, asked, fetches,
                   mapper_calls, outcome, submitVars, mapVars>>

\* `if not hunk_lines: continue`
AnalyzeSkipHunk ==
    /\ pc = "hunk"
    /\ hi <= Len(CurFile.hunks)
    /\ ~Truthy(CurHunkData.lines)
    /\ hi' = hi + 1
    /\ UNCHANGED <<pc, parseVars, mainVars, fi, comments, asked, fetches,
                   mapper_calls, outcome, submitVars, mapVars>>

AtHunk ==
    /\ pc = "hunk"
    /\ hi <= Len(CurFile.hunks)
    /\ Truthy(CurHunkData.lines)

\* Client.GenerativeModel(...) raises in get_ai_response, before its try:
\* the exception leaves analyze_code and main
AnalyzeModelRaises ==
    /\ AtHunk
    /\ asked' = Append(asked, Asked(<<>>))
    /\ pc' = "done"
    /\ outcome' = "raised"
    /\ UNCHANGED <<parseVars, mainVars, fi, hi, comments, fetches,
                   mapper_calls, submitVars, mapVars>>

\* get_ai_response returns no valid review: `if ai_response:` is false
AnalyzeNoReviews ==
    /\ AtHunk
    /\ \E reviews \in GeminiAnswers : ~Truthy(ValidReviews(reviews))
    /\ asked' = Append(asked, Asked(<<>>))
    /\ hi' = hi + 1
    /\ UNCHANGED <<pc, parseVars, mainVars, fi, comments, fetches,
                   mapper_calls, outcome, submitVars, mapVars>>

\* gh.get_repo(...) raises in get_file_content, before its try: the
\* exception leaves create_comment, analyze_code and main
AnalyzeFetchRaises ==
    /\ AtHunk
    /\ \E reviews \in GeminiAnswers : Truthy(ValidReviews(reviews))
    /\ asked' = Append(asked, Asked(<<>>))
    /\ fetches' = Append(fetches, CurFile.path)
    /\ pc' = "done"
    /\ outcome' = "raised"
    /\ UNCHANGED <<parseVars, mainVars, fi, hi, comments, mapper_calls,
                   submitVars, mapVars>>

\* Gemini's findings are turned into comments by create_comment
AnalyzeComments ==
    /\ AtHunk
    /\ \E reviews \in GeminiAnswers, file_lines \in FileContents :
        /\ Truthy(ValidReviews(reviews))
        /\ LET made == create_comment(CurFile.path, file_lines, CurHunk,
                                      ValidReviews(reviews))
           IN  /\ asked' = Append(asked, Asked(made.comments))
               /\ mapper_calls' = mapper_calls \o made.calls
               /\ comments' = IF Truthy(made.comments)
                              THEN comments \o made.comments
                              ELSE comments
    /\ fetches' = Append(fetches, CurFile.path)
    /\ hi' = hi + 1
    /\ UNCHANGED <<pc, parseVars, mainVars, fi, outcome, submitVars, mapVars>>

----------------------------------------------------------------------------
(* create_review_comment.                                                  *)

Min(a, b) == IF a < b THEN a ELSE b

\* a plausible slip: the slice loses its first comment
BatchSlice_DropsFirst(cs, i, size) == SubSeq(cs, i + 2, Min(i + size, Len(cs)))

\* comments[i:i+batch_size]
BatchSlice(cs, i, size) == SubSeq(cs, i + 1, Min(i + size, Len(cs)))

\* (len(comments) + batch_size - 1) // batch_size
TotalBatches(cs, size) == (Len(cs) + size - 1) \div size

\* one iteration of `for i in range(0, len(comments), batch_size)`, the
\* review of create_review_comment_batch created
SubmitBatch ==
    /\ pc = "submit"
    /\ batch_i < Len(comments)
    /\ submissions' = Append(submissions,
            [batch |-> BatchSlice(comments, batch_i, batch_size),
             batch_index |-> batch_i \div batch_size,
             total_batches |-> TotalBatches(comments, batch_size)])
    /\ batch_i' = batch_i + batch_size
    /\ UNCHANGED <<pc, parseVars, mainVars, analyzeVars, outcome, batch_size,
                   mapVars>>

\* the same iteration when gh.get_repo, get_pull or pr.create_review raises:
\* nothing in create_review_comment catches it, main prints the error
SubmitRaises ==
    /\ pc = "submit"
    /\ batch_i < Len(comments)
    /\ pc' = "done"
    /\ outcome' = "submit_raised"
    /\ UNCHANGED <<parseVars, mainVars, analyzeVars, submitVars, mapVars>>

SubmitReturn ==
    /\ pc = "submit"
    /\ batch_i >= Len(comments)
    /\ pc' = "done"
    /\ outcome' = "ok"
    /\ UNCHANGED <<parseVars, mainVars, analyzeVars, submitVars, mapVars>>

\* the k-th comment of a comment list
SomeComment(k) ==
    [body |-> "body", path |-> <<"a">>, position |-> k, full_line_number |-> k]

InitBatch ==
    /\ pc = "submit"
    /\ diff = <<>> /\ ParseIdle
    /\ parsed_diff = <<>> /\ exclude_raw = EMPTY /\ filtered_diff = <<>>
    /\ fi = 1 /\ hi = 1 /\ asked = <<>> /\ fetches = <<>>
    /\ mapper_calls = <<>> /\ outcome = "running"
    /\ \E n \in 0..MaxComments : comments = [k \in 1..n |-> SomeComment(k)]
    /\ batch_size \in 1..MaxBatch
    /\ batch_i = 0 /\ submissions = <<>>
    /\ m_lines = <<>> /\ m_start = 1 /\ m_d = 0 /\ m_result = 0

NextBatch == SubmitBatch \/ SubmitRaises \/ SubmitReturn

SpecBatch == InitBatch /\ [][NextBatch]_vars

----------------------------------------------------------------------------
(* The whole run of main from parse_diff on, over diffs of one or two file *)
(* sections and three settings of INPUT_EXCLUDE.                           *)

P_A_TXT == <<"a",".","t","x","t">>
P_README == <<"R","E","A","D","M","E",".","m","d">>
P_D_PY == <<"d",".","p","y">>

L_HUNK7 == <<"@","@"," ","-","7",","," ","+","7"," ","@","@">>
L_HUNK1 == <<"@","@"," ","-","1",","," ","+","0"," ","@","@">>

HunkBody == <<L_CTX, L_DEL, L_ADD>>

\* a.txt modified in two hunks of the same body, at lines 3 and 7
SectionTwoHunks ==
    <<L_GIT, L_INDEX, SRC_MARK \o P_A_TXT, TGT_MARK \o P_A_TXT, L_HUNK3>>
    \o HunkBody \o <<L_HUNK7>> \o HunkBody

\* README.md modified in one hunk
SectionReadme ==
    <<L_GIT, L_INDEX, SRC_MARK \o P_README, TGT_MARK \o P_README, L_HUNK3>>
    \o HunkBody

\* d.py deleted
SectionDeleted ==
    <<L_GIT, L_INDEX, SRC_MARK \o P_D_PY, L_TGT_NULL, L_HUNK1, L_DEL>>

\* a rename without a change: no path marker, no hunk
SectionRename == <<L_GIT>>

\* a.txt with a hunk header and no line after it
SectionEmptyHunk ==
    <<L_GIT, SRC_MARK \o P_A_TXT, TGT_MARK \o P_A_TXT, L_HUNK3>>

Sections ==
    {SectionTwoHunks, SectionReadme, SectionDeleted, SectionRename,
     SectionEmptyHunk}

Diffs == {s1 \o s2 : s1 \in Sections, s2 \in Sections \cup {<<>>}}

X_NONE == EMPTY
X_MD == <<"*",".","m","d">>
X_TWO == <<" ","d",".","p","y"," ",",",","," ","*",".","m","d">>

ExcludeSettings == {X_NONE, X_MD, X_TWO}

Init ==
    /\ pc = "parse"
    /\ diff \in Diffs
    /\ ParseIdle
    /\ parsed_diff = <<>>
    /\ exclude_raw \in ExcludeSettings
    /\ filtered_diff = <<>>
    /\ fi = 1 /\ hi = 1 /\ comments = <<>> /\ asked = <<>> /\ fetches = <<>>
    /\ mapper_calls = <<>> /\ outcome = "running"
    /\ batch_size = DefaultBatchSize /\ batch_i = 0 /\ submissions = <<>>
    /\ m_lines = <<>> /\ m_start = 1 /\ m_d = 0 /\ m_result = 0

Next ==
    \/ ParseLine
    \/ ParseEnd
    \/ Filter
    \/ AnalyzeReturn
    \/ AnalyzeSkipFile
    \/ AnalyzeEnterFile
    \/ AnalyzeNextFile
    \/ AnalyzeSkipHunk
    \/ AnalyzeModelRaises
    \/ AnalyzeNoReviews
    \/ AnalyzeFetchRaises
    \/ AnalyzeComments
    \/ SubmitBatch
    \/ SubmitRaises
    \/ SubmitReturn

Spec == Init /\ [][Next]_vars

----------------------------------------------------------------------------
(* What a diff text says, read off the text itself: its 'diff --git'       *)
(* sections, and each section's path markers and hunk headers.             *)

Idx(n) == [i \in 1..n |-> i]

PosWhere(d, first, last, Test(_)) ==
    SelectSeq(Idx(Len(d)), LAMBDA i : first <= i /\ i <= last /\ Test(d[i]))

IsGit(l) == StartsWith(l, DIFF_GIT)
IsPathMark(l) == ~IsGit(l) /\ (StartsWith(l, SRC_MARK) \/ StartsWith(l, TGT_MARK))
IsHunkHeader(l) == ~IsGit(l) /\ ~IsPathMark(l) /\ StartsWith(l, HUNK_MARK)

SectionStarts(d) == PosWhere(d, 1, Len(d), IsGit)

SectionLast(d, k) ==
    IF k < Len(SectionStarts(d)) THEN SectionStarts(d)[k + 1] - 1 ELSE Len(d)

SectionPath(d, k) ==
    LET ps == PosWhere(d, SectionStarts(d)[k], SectionLast(d, k), IsPathMark)
    IN  IF ps = <<>> THEN EMPTY ELSE DropFirst(d[ps[Len(ps)]], 6)

SectionHeaders(d, k) ==
    PosWhere(d, SectionStarts(d)[k], SectionLast(d, k), IsHunkHeader)

\* the last input line before the next '@@' header or 'diff --git' marker
HunkLast(d, k, j) ==
    IF j < Len(SectionHeaders(d, k))
    THEN SectionHeaders(d, k)[j + 1] - 1
    ELSE SectionLast(d, k)

RECURSIVE IsSubseq(_, _)
IsSubseq(a, b) ==
    IF a = <<>> THEN TRUE
    ELSE IF b = <<>> THEN FALSE
    ELSE IF Head(a) = Head(b) THEN IsSubseq(Tail(a), Tail(b))
    ELSE IsSubseq(a, Tail(b))

Parsed == pc # "parse" /\ pc # "map" /\ pc # "batch"

----------------------------------------------------------------------------
(* C7: for a diff text with N lines beginning with 'diff --git',           *)
(* parse_diff returns exactly N file entries, and the i-th entry is the    *)
(* i-th section: its path is the section's last path marker ('' when it    *)
(* has none) and its hunks are the section's '@@' headers, in order.       *)
C7_OneEntryPerSection ==
    Parsed =>
        /\ Len(parsed_diff) = Len(SectionStarts(diff))
        /\ \A k \in 1..Len(parsed_diff) :
            /\ k <= Len(SectionStarts(diff))
            /\ parsed_diff[k].path = SectionPath(diff, k)
            /\ [j \in 1..Len(parsed_diff[k].hunks) |-> parsed_diff[k].hunks[j].header]
                 = [j \in 1..Len(SectionHeaders(diff, k)) |->
                        diff[SectionHeaders(diff, k)[j]]]

\* two sections parsed, the first with neither a path marker nor a hunk,
\* the second with a path and a hunk
C7_Witness ==
    /\ Parsed
    /\ Len(SectionStarts(diff)) = 2
    /\ Len(parsed_diff) = 2
    /\ parsed_diff[1] = NewFile
    /\ parsed_diff[2].path # EMPTY
    /\ Len(parsed_diff[2].hunks) = 1

(* C10: every line stored in a hunk's line sequence is a line of the input *)
(* located after that hunk's '@@' header and before the next '@@' header   *)
(* or 'diff --git' marker, in input order.                                 *)
C10_LinesBelongToHunk ==
    Parsed =>
        \A k \in 1..Len(parsed_diff) :
            \A j \in 1..Len(parsed_diff[k].hunks) :
                /\ k <= Len(SectionStarts(diff))
                /\ j <= Len(SectionHeaders(diff, k))
                /\ IsSubseq(parsed_diff[k].hunks[j].lines,
                            SubSeq(diff, SectionHeaders(diff, k)[j] + 1,
                                   HunkLast(diff, k, j)))

----------------------------------------------------------------------------
NonRemoved(lines) == SelectSeq(lines, LAMBDA l : ~StartsWith(l, <<"-">>))

(* C1: for every diffLineNumber d with 1 <= d <= (number of non-removed    *)
(* lines of the hunk), get_full_line_number returns source_start + d - 1.  *)
C1_StartPlusOffset ==
    (pc = "mapped" /\ 1 <= m_d /\ m_d <= Len(NonRemoved(m_lines)))
        => m_result = m_start + m_d - 1

----------------------------------------------------------------------------
CeilDiv(n, b) == CHOOSE q \in 0..n : q * b >= n /\ (q - 1) * b < n

RECURSIVE Concat(_)
Concat(ss) == IF ss = <<>> THEN <<>> ELSE Head(ss) \o Concat(Tail(ss))

BatchesOf(subs) == [k \in 1..Len(subs) |-> subs[k].batch]

(* C6: for n comments and batch size b >= 1, when every submission         *)
(* succeeds, create_review_comment performs exactly ceil(n/b) submissions; *)
(* the batches are consecutive slices that partition the comment sequence  *)
(* in order, every batch but the last has b comments and the last has      *)
(* n - b*(ceil(n/b) - 1).                                                  *)
C6_Batches ==
    LET n == Len(comments)
        b == batch_size
        q == CeilDiv(n, b)
    IN  /\ (pc = "submit" \/ pc = "done") =>
            \* the batches so far are the leading consecutive slices
            /\ Concat(BatchesOf(submissions))
                 = SubSeq(comments, 1, Min(Len(submissions) * b, n))
            /\ \A k \in 1..Len(submissions) :
                 /\ Len(submissions[k].batch) = (IF k < q THEN b ELSE n - b * (q - 1))
                 /\ submissions[k].batch_index = k - 1
                 /\ submissions[k].total_batches = q
        /\ (pc = "done" /\ outcome = "ok") =>
            /\ Len(submissions) = q
            /\ Concat(BatchesOf(submissions)) = comments

\* 23 comments submitted with batch size 10 as batches of 10, 10 and 3
C6_Witness ==
    /\ pc = "done" /\ outcome = "ok"
    /\ Len(comments) = 23 /\ batch_size = 10
    /\ [k \in 1..Len(submissions) |-> Len(submissions[k].batch)] = <<10, 10, 3>>

----------------------------------------------------------------------------
DecimalDigits == <<"0","1","2","3","4","5","6","7","8","9">>
IsDigit(c) == \E v \in 1..10 : DecimalDigits[v] = c
DigitOf(c) == (CHOOSE v \in 1..10 : DecimalDigits[v] = c) - 1

RECURSIVE ReadNumber(_, _, _)
ReadNumber(s, i, acc) ==
    IF i <= Len(s) /\ IsDigit(s[i])
    THEN ReadNumber(s, i + 1, acc * 10 + DigitOf(s[i]))
    ELSE acc

\* the source start a header '@@ -s,l +s,l @@' announces
HeaderSourceStart(header) == ReadNumber(header, 5, 0)

Elems(seq) == {seq[k] : k \in 1..Len(seq)}

(* C2: the full_line_number of a comment is computed from the source start *)
(* announced in the header of its hunk: for two hunks with identical body  *)
(* lines and the same finding, whose headers announce source starts s1 and *)
(* s2, the full_line_numbers differ by s2 - s1.                            *)
C2_LineFollowsHeader ==
    \A i, j \in 1..Len(asked) :
        asked[i].lines = asked[j].lines =>
            \A c1 \in Elems(asked[i].comments), c2 \in Elems(asked[j].comments) :
                c1.position = c2.position =>
                    c2.full_line_number - c1.full_line_number
                      = HeaderSourceStart(asked[j].header)
                          - HeaderSourceStart(asked[i].header)

----------------------------------------------------------------------------
(* C3: a finding whose lineNumber is below 1 or above the number of lines  *)
(* of the hunk produces no comment and never causes a call of              *)
(* get_full_line_number.                                                   *)
C3_NoCallOutOfRange ==
    /\ \A k \in 1..Len(asked) : \A c \in Elems(asked[k].comments) :
            1 <= c.position /\ c.position <= Len(asked[k].lines)
    /\ \A call \in Elems(mapper_calls) :
            1 <= call.diff_line_number
            /\ call.diff_line_number <= call.source_length

----------------------------------------------------------------------------
Reviewable(fd) ==
    UNION {{<<f, h>> : h \in {n \in 1..Len(fd[f].hunks) :
                                  /\ Truthy(fd[f].path) /\ fd[f].path # DEV_NULL
                                  /\ Truthy(fd[f].hunks[n].lines)}} :
           f \in 1..Len(fd)}

(* C4: an exception at any step of get_ai_response or get_file_content for *)
(* one hunk is caught at that hunk: analyze_code still processes every     *)
(* later hunk and file, and the comments of the other hunks are submitted. *)
C4_FailureStaysInHunk ==
    (pc = "done" /\ outcome # "submit_raised") =>
        /\ Len(asked) = Cardinality(Reviewable(filtered_diff))
        /\ Concat(BatchesOf(submissions)) = comments

----------------------------------------------------------------------------
(* C5: during one run of analyze_code, get_file_content is called at most  *)
(* once per file path.                                                     *)
C5_OneFetchPerPath ==
    \A i, j \in 1..Len(fetches) : i # j => fetches[i] # fetches[j]

----------------------------------------------------------------------------
MatchesConfigured(path) ==
    \E pat \in Elems(ExcludePatterns(exclude_raw)) : fnmatch(path, pat)

PathsTouched ==
    {filtered_diff[k].path : k \in 1..Len(filtered_diff)}
    \cup {asked[k].path : k \in 1..Len(asked)}
    \cup Elems(fetches)
    \cup {comments[k].path : k \in 1..Len(comments)}

Filtered == Parsed /\ pc # "filter"

(* C8: a parsed file whose path matches an exclude pattern is never passed *)
(* to analyze_code: no Gemini call, no file fetch and no comment is made   *)
(* for it; the files matching no pattern are passed on in their order.     *)
(* E.g. README.md under the pattern *.md.                                  *)
C8_ExcludedNeverAnalyzed ==
    Filtered =>
        /\ filtered_diff = SelectSeq(parsed_diff,
                                     LAMBDA f : ~MatchesConfigured(f.path))
        /\ \A path \in PathsTouched : ~MatchesConfigured(path)
        /\ exclude_raw = X_NONE => filtered_diff = parsed_diff
        /\ exclude_raw \in {X_MD, X_TWO} => P_README \notin PathsTouched
        /\ exclude_raw = X_TWO => P_D_PY \notin PathsTouched
        /\ exclude_raw = X_MD =>
              \A k \in 1..Len(parsed_diff) :
                  parsed_diff[k].path \in {P_A_TXT, P_D_PY, EMPTY} =>
                      parsed_diff[k] \in Elems(filtered_diff)

\* README.md and a.txt in the diff, *.md excluded: the run ends with
\* comments for a.txt
C8_Witness ==
    /\ pc = "done" /\ outcome = "ok"
    /\ exclude_raw = X_MD
    /\ \E k \in 1..Len(parsed_diff) : parsed_diff[k].path = P_README
    /\ \E k \in 1..Len(asked) : asked[k].path = P_A_TXT
    /\ Truthy(comments)
    /\ Truthy(submissions)

----------------------------------------------------------------------------
IsNullTarget(l) == StartsWith(l, <<"+","+","+"," ">> \o DEV_NULL)

DeletedPaths(d) ==
    {SectionPath(d, k) : k \in
        {n \in 1..Len(SectionStarts(d)) :
            PosWhere(d, SectionStarts(d)[n], SectionLast(d, n), IsNullTarget)
                # <<>>}}

(* C9: a file deleted by the diff ('--- a/<path>' and '+++ /dev/null') is  *)
(* skipped: no Gemini call is made for its hunks and no comment is made    *)
(* for it.                                                                 *)
C9_DeletedFileSkipped ==
    /\ outcome # "raised" =>
          \A k \in 1..Len(asked) : asked[k].path \notin DeletedPaths(diff)
    /\ \A k \in 1..Len(comments) : comments[k].path \notin DeletedPaths(diff)

============================================================================
